---- MODULE Spec2Model ----
(***************************************************************************)
(* Job-shop scheduling core of JsspSolver: the domain model                *)
(* (include/models.hpp) and the dispatch scheduler (src/solver.cpp).       *)
(*                                                                         *)
(* Operations, jobs and machines are reference-counted objects in the C++  *)
(* code, so they live here in three heaps indexed by handles (positive     *)
(* integers, 0 is the null pointer).  A ProblemInstance holds vectors of   *)
(* handles, and copying a ProblemInstance copies the vectors, not the      *)
(* objects.                                                                *)
(***************************************************************************)
EXTENDS Integers, Sequences, FiniteSets, TLC

\* ---------------------------------------------------------------- bounds
MaxJobs == 2
MaxMachines == 2
MaxDur == 2
MaxRows == 3
MaxSolves == 2
MaxTextRows == 2
MaxApiCalls == 2

\* ------------------------------------------------------ program constants
RoundLimit == 1000
Null == 0
Rules == {"FIFO", "SPT", "LPT"}
NullProblemError == "Problem instance is null"
RoundLimitWarning == "Warning: Scheduling may not have completed properly"
InvalidCountsError == "Invalid number of jobs or machines"
NoOperationsError == "No valid operations found in file"

VARIABLES
    ops,                \* heap of Operation objects
    jobObjs,            \* heap of Job objects
    machObjs,           \* heap of Machine objects
    problem,            \* the caller's ProblemInstance p
    algorithm,          \* Solver::algorithm
    sortTies,           \* what this build's std::sort does with equal keys
    pc,                 \* position inside solve: "idle", "FIFO" or "PRIO"
    iteration,          \* local of the scheduling loop
    operationScheduled, \* local of the scheduling loop
    cursor,             \* next position of the inner for loop
    readyOperations,    \* local of scheduleWithPriority
    results,            \* the ScheduleResult objects returned so far
    cerr,               \* lines written to std::cerr
    thrown,             \* what the last call threw ("none" if it returned)
    lastCall            \* the caller's latest call (calculateMetrics: on which
                        \* result, and whether it repeats the call before it)

vars == <<ops, jobObjs, machObjs, problem, algorithm, sortTies, pc, iteration,
          operationScheduled, cursor, readyOperations, results, cerr, thrown,
          lastCall>>

\* ---------------------------------------------------------------- helpers
Max2(a, b) == IF a >= b THEN a ELSE b

Max0(n) == IF n > 0 THEN n ELSE 0

MaxOfSet(S) == CHOOSE x \in S : \A y \in S : y <= x

Reverse(s) == [i \in 1..Len(s) |-> s[Len(s) + 1 - i]]

Iota(n) == [i \in 1..n |-> i]

RECURSIVE Flatten(_)
Flatten(ss) == IF Len(ss) = 0 THEN <<>> ELSE Head(ss) \o Flatten(Tail(ss))

\* the sum of f[x] over x in S
RECURSIVE SumOver(_, _)
SumOver(f, S) ==
    IF S = {} THEN 0
    ELSE LET x == CHOOSE y \in S : TRUE IN f[x] + SumOver(f, S \ {x})

\* ------------------------------------------------------------ domain model
Operation(jobId, machineId, processingTime, operationId) ==
    [jobId |-> jobId, machineId |-> machineId, processingTime |-> processingTime,
     operationId |-> operationId, startTime |-> 0, endTime |-> 0]

getDuration(op) == op.processingTime

setScheduled(op, start, end) == [op EXCEPT !.startTime = start, !.endTime = end]

isScheduled(op) == op.endTime > op.startTime

Job(jobId) == [jobId |-> jobId, operations |-> <<>>]

\* mutant: the operation is appended without the null test
addOperation_Unchecked(job, h) == [job EXCEPT !.operations = Append(@, h)]

addOperation(job, h) ==
    IF h # Null THEN [job EXCEPT !.operations = Append(@, h)] ELSE job

getOperation(job, index) ==
    IF index >= 0 /\ index < Len(job.operations) THEN job.operations[index + 1] ELSE Null

Machine(machineId) ==
    [machineId |-> machineId, scheduledOperations |-> <<>>, availableTime |-> 0]

\* Machine::scheduleOperation on machine mh: the new operation and machine heaps.
scheduleOperation(O, M, mh, h, startTime) ==
    IF h # Null
    THEN [ops |-> [O EXCEPT ![h] = setScheduled(@, startTime, startTime + getDuration(@))],
          mach |-> [M EXCEPT ![mh].scheduledOperations = Append(@, h),
                             ![mh].availableTime = startTime + getDuration(O[h])]]
    ELSE [ops |-> O, mach |-> M]

reset(m) == [m EXCEPT !.scheduledOperations = <<>>, !.availableTime = 0]

\* createJobs / createMachines: count objects with ids 0..count-1, none when
\* count <= 0, and the declared count stored as given.
createJobs(count) ==
    [numJobs |-> count, jobs |-> [i \in 1..Max0(count) |-> Job(i - 1)]]

createMachines(count) ==
    [numMachines |-> count, machines |-> [i \in 1..Max0(count) |-> Machine(i - 1)]]

getJob(p, jobId) ==
    IF jobId >= 0 /\ jobId < Len(p.jobs) THEN p.jobs[jobId + 1] ELSE Null

getMachine(p, machineId) ==
    IF machineId >= 0 /\ machineId < Len(p.machines) THEN p.machines[machineId + 1] ELSE Null

\* ------------------------------------------------------- problem instances
\* A row is one "jobId machineId processingTime" line; the operation made
\* from row h gets operationId h-1 (the running operationCount) and is added
\* to getJob(jobId).  With reversed storage the operations are appended in
\* the opposite order, so that storage order and operationId order disagree.
RowOps(rows) ==
    [h \in 1..Len(rows) |->
        Operation(rows[h].jobId, rows[h].machineId, rows[h].processingTime, h - 1)]

RECURSIVE AddRows(_, _, _)
AddRows(J, O, hs) ==
    IF Len(hs) = 0 THEN J
    ELSE LET h == Head(hs)
             j == O[h].jobId
         IN  AddRows(IF j >= 0 /\ j < Len(J)
                     THEN [J EXCEPT ![j + 1] = addOperation(@, h)]
                     ELSE J,
                     O, Tail(hs))

MakeProblem(nj, nm, rows, reversed) ==
    LET O == RowOps(rows)
        cj == createJobs(nj)
        cm == createMachines(nm)
        order == IF reversed THEN Reverse(Iota(Len(rows))) ELSE Iota(Len(rows))
    IN  [ops |-> O,
         jobObjs |-> AddRows(cj.jobs, O, order),
         machObjs |-> cm.machines,
         problem |-> [jobs |-> Iota(Len(cj.jobs)), machines |-> Iota(Len(cm.machines)),
                      numJobs |-> cj.numJobs, numMachines |-> cm.numMachines]]

Rows(nj, durations) ==
    [jobId : 0..(nj - 1), machineId : 0..(MaxMachines - 1), processingTime : durations]

RowSeqs(nj, durations) ==
    UNION {[1..n -> Rows(nj, durations)] : n \in 0..MaxRows}

\* Instances with positive durations; a machineId may exceed the number of
\* machines created (an operation no machine can take).
InstancesOver(durations) ==
    UNION {{MakeProblem(nj, nm, rows, reversed) :
                nm \in 0..MaxMachines, rows \in RowSeqs(nj, durations),
                reversed \in BOOLEAN} : nj \in (0 - 1)..MaxJobs}

Instances == InstancesOver(1..MaxDur)

\* Instances with a zero or negative duration, which Parser::parseString lets
\* through: a zero next to a positive duration on one machine; a negative
\* one among three jobs on two machines; a zero before and after a positive
\* one in the same job; a zero next to, and behind, an operation whose
\* machine does not exist.
Row(jobId, machineId, processingTime) ==
    [jobId |-> jobId, machineId |-> machineId, processingTime |-> processingTime]

DegenerateInstances ==
    {MakeProblem(2, 1, <<Row(0, 0, 0), Row(1, 0, 3)>>, FALSE),
     MakeProblem(3, 2, <<Row(0, 0, 0 - 2), Row(1, 0, 5), Row(2, 1, 1), Row(2, 0, 1)>>, FALSE),
     MakeProblem(1, 1, <<Row(0, 0, 0), Row(0, 0, 2)>>, FALSE),
     MakeProblem(1, 1, <<Row(0, 0, 2), Row(0, 0, 0)>>, TRUE),
     MakeProblem(2, 1, <<Row(0, 1, 1), Row(1, 0, 0)>>, FALSE),
     MakeProblem(1, 1, <<Row(0, 1, 1), Row(0, 0, 0)>>, FALSE)}

\* ------------------------------------------------------------------ parser
\* An input text is its header "numJobs numMachines" and the rows that follow.
TextRows ==
    [jobId : (0 - 1)..MaxJobs, machineId : (0 - 1)..MaxMachines,
     processingTime : (0 - 1)..MaxDur]

Texts ==
    {[numJobs |-> nj, numMachines |-> nm, rows |-> rows] :
        nj \in 0..MaxJobs, nm \in 0..MaxMachines,
        rows \in UNION {[1..n -> TextRows] : n \in 0..MaxTextRows}}

\* the test that opens the while loop of parseFile (negated): the row is kept
ValidRow(text, row) ==
    ~(\/ row.jobId < 0 \/ row.jobId >= text.numJobs
      \/ row.machineId < 0 \/ row.machineId >= text.numMachines
      \/ row.processingTime <= 0)

Thrown(msg) == [thrown |-> msg]

Returned(inst) ==
    [thrown |-> "none", ops |-> inst.ops, jobObjs |-> inst.jobObjs,
     machObjs |-> inst.machObjs, problem |-> inst.problem]

\* Parser::parseFile on a file that opens: invalid rows are skipped and do
\* not advance operationCount
parseFile(text) ==
    IF text.numJobs <= 0 \/ text.numMachines <= 0 THEN Thrown(InvalidCountsError)
    ELSE LET kept == SelectSeq(text.rows, LAMBDA row : ValidRow(text, row))
         IN  IF Len(kept) = 0 THEN Thrown(NoOperationsError)
             ELSE Returned(MakeProblem(text.numJobs, text.numMachines, kept, FALSE))

\* Parser::parseString: every row makes an operation and advances
\* operationCount; the operation is added when getJob(jobId) is not null
parseString(text) ==
    IF text.numJobs <= 0 \/ text.numMachines <= 0 THEN Thrown(InvalidCountsError)
    ELSE Returned(MakeProblem(text.numJobs, text.numMachines, text.rows, FALSE))

\* ------------------------------------------------------------- scheduler
\* The nested "for job / for operation" traversal, as <<job, operation>>
\* handle pairs in visiting order.
Traversal ==
    Flatten([i \in 1..Len(problem.jobs) |->
                [k \in 1..Len(jobObjs[problem.jobs[i]].operations) |->
                    <<problem.jobs[i], jobObjs[problem.jobs[i]].operations[k]>>]])

\* mutant: <= for <, so that an operation waits for itself
allPrevOpsCompleted_Self(O, job, h) ==
    \A k \in 1..Len(job.operations) :
        LET prevOp == O[job.operations[k]]
        IN  prevOp.operationId <= O[h].operationId => isScheduled(prevOp)

allPrevOpsCompleted(O, job, h) ==
    \A k \in 1..Len(job.operations) :
        LET prevOp == O[job.operations[k]]
        IN  prevOp.operationId < O[h].operationId => isScheduled(prevOp)

\* mutant: an operation may start when its predecessors have started
jobReadyTime_Start(O, job, h) ==
    MaxOfSet({0} \cup {O[job.operations[k]].startTime :
                         k \in {x \in 1..Len(job.operations) :
                                   O[job.operations[x]].operationId < O[h].operationId}})

\* mutant: the completion time of the earlier operations is ignored
jobReadyTime_Ignored(O, job, h) == 0

jobReadyTime(O, job, h) ==
    MaxOfSet({0} \cup {O[job.operations[k]].endTime :
                         k \in {x \in 1..Len(job.operations) :
                                   O[job.operations[x]].operationId < O[h].operationId}})

ResetMachines(M) ==
    [mh \in DOMAIN M |->
        IF \E i \in 1..Len(problem.machines) : problem.machines[i] = mh
        THEN reset(M[mh]) ELSE M[mh]]

\* mutant: the start/end times of an earlier pass are kept
ResetOperations_Skipped(O) == O

ResetOperations(O) ==
    [h \in DOMAIN O |->
        IF \E i \in 1..Len(Traversal) : Traversal[i][2] = h
        THEN setScheduled(O[h], 0, 0) ELSE O[h]]

\* scheduleFIFO, body of the inner loop for the operation at Traversal[i]
FifoTakes(O, i) ==
    LET jh == Traversal[i][1]
        h == Traversal[i][2]
    IN  /\ ~isScheduled(O[h])
        /\ getMachine(problem, O[h].machineId) # Null
        /\ allPrevOpsCompleted(O, jobObjs[jh], h)

\* mutant: the start is the machine's availableTime alone
FifoStartTime_MachineOnly(O, M, i) ==
    M[getMachine(problem, O[Traversal[i][2]].machineId)].availableTime

FifoStartTime(O, M, i) ==
    LET jh == Traversal[i][1]
        h == Traversal[i][2]
        machine == getMachine(problem, O[h].machineId)
    IN  Max2(M[machine].availableTime, jobReadyTime(O, jobObjs[jh], h))

FifoAssign(O, M, i) ==
    LET h == Traversal[i][2]
    IN  scheduleOperation(O, M, getMachine(problem, O[h].machineId), h,
                          FifoStartTime(O, M, i))

\* first position at or after c that the FIFO loop schedules, 0 if none
FifoNext(O, c) ==
    IF \E i \in c..Len(Traversal) : FifoTakes(O, i)
    THEN CHOOSE i \in c..Len(Traversal) :
            FifoTakes(O, i) /\ \A x \in c..(i - 1) : ~FifoTakes(O, x)
    ELSE 0

\* scheduleWithPriority: the ready set at the start of a round
ReadyOperations(O) ==
    LET T == Traversal
        ready(i) == /\ ~isScheduled(O[T[i][2]])
                    /\ allPrevOpsCompleted(O, jobObjs[T[i][1]], T[i][2])
        idx == SelectSeq(Iota(Len(T)), ready)
    IN  [n \in 1..Len(idx) |-> T[idx[n]][2]]

\* the comparators of scheduleSPT and scheduleLPT
compare(rule, a, b) ==
    IF rule = "SPT" THEN a.processingTime < b.processingTime
    ELSE a.processingTime > b.processingTime

\* std::sort leaves the order of equivalent elements unspecified: a build
\* either keeps them in input order or not; the two extremes are modelled.
RECURSIVE InsertByPriority(_, _, _, _, _)
InsertByPriority(O, s, h, rule, ties) ==
    IF Len(s) = 0 THEN <<h>>
    ELSE LET last == s[Len(s)]
             shift == IF ties = "kept" THEN compare(rule, O[h], O[last])
                      ELSE ~compare(rule, O[last], O[h])
         IN  IF shift
             THEN Append(InsertByPriority(O, SubSeq(s, 1, Len(s) - 1), h, rule, ties), last)
             ELSE Append(s, h)

RECURSIVE SortByPriority(_, _, _, _)
SortByPriority(O, s, rule, ties) ==
    IF Len(s) = 0 THEN <<>>
    ELSE InsertByPriority(O, SortByPriority(O, SubSeq(s, 1, Len(s) - 1), rule, ties),
                          s[Len(s)], rule, ties)

PrioTakes(O, ready, i) ==
    /\ ~isScheduled(O[ready[i]])
    /\ getMachine(problem, O[ready[i]].machineId) # Null

PrioStartTime(O, M, h) ==
    LET machine == getMachine(problem, O[h].machineId)
        job == getJob(problem, O[h].jobId)
        ready == IF job # Null THEN jobReadyTime(O, jobObjs[job], h) ELSE 0
    IN  Max2(M[machine].availableTime, ready)

PrioAssign(O, M, h) ==
    scheduleOperation(O, M, getMachine(problem, O[h].machineId), h, PrioStartTime(O, M, h))

PrioNext(O, ready, c) ==
    IF \E i \in c..Len(ready) : PrioTakes(O, ready, i)
    THEN CHOOSE i \in c..Len(ready) :
            PrioTakes(O, ready, i) /\ \A x \in c..(i - 1) : ~PrioTakes(O, ready, x)
    ELSE 0

\* One whole scheduling pass as a function of the heaps it starts from.
RECURSIVE FifoRound(_, _, _, _)
FifoRound(O, M, c, scheduled) ==
    LET i == FifoNext(O, c)
    IN  IF i = 0 THEN [ops |-> O, mach |-> M, operationScheduled |-> scheduled]
        ELSE LET a == FifoAssign(O, M, i)
             IN  FifoRound(a.ops, a.mach, i + 1, TRUE)

RECURSIVE FifoLoop(_, _, _, _)
FifoLoop(O, M, it, scheduled) ==
    IF scheduled /\ it < RoundLimit
    THEN LET r == FifoRound(O, M, 1, FALSE)
         IN  FifoLoop(r.ops, r.mach, it + 1, r.operationScheduled)
    ELSE [ops |-> O, mach |-> M, iteration |-> it]

scheduleFIFO(O, M) == FifoLoop(ResetOperations(O), ResetMachines(M), 0, TRUE)

RECURSIVE PrioRound(_, _, _, _, _)
PrioRound(O, M, ready, c, scheduled) ==
    LET i == PrioNext(O, ready, c)
    IN  IF i = 0 THEN [ops |-> O, mach |-> M, operationScheduled |-> scheduled]
        ELSE LET a == PrioAssign(O, M, ready[i])
             IN  PrioRound(a.ops, a.mach, ready, i + 1, TRUE)

RECURSIVE scheduleWithPriority(_, _, _, _, _, _)
scheduleWithPriority(O, M, rule, ties, it, scheduled) ==
    IF scheduled /\ it < RoundLimit
    THEN LET r == PrioRound(O, M, SortByPriority(O, ReadyOperations(O), rule, ties),
                            1, FALSE)
         IN  scheduleWithPriority(r.ops, r.mach, rule, ties, it + 1, r.operationScheduled)
    ELSE [ops |-> O, mach |-> M, iteration |-> it]

scheduleSPT(O, M, ties) ==
    scheduleWithPriority(ResetOperations(O), ResetMachines(M), "SPT", ties, 0, TRUE)

scheduleLPT(O, M, ties) ==
    scheduleWithPriority(ResetOperations(O), ResetMachines(M), "LPT", ties, 0, TRUE)

\* the switch of Solver::solve
Schedule(O, M, rule, ties) ==
    CASE rule = "FIFO" -> scheduleFIFO(O, M)
      [] rule = "SPT" -> scheduleSPT(O, M, ties)
      [] rule = "LPT" -> scheduleLPT(O, M, ties)

\* --------------------------------------------------------------- metrics
\* mutant: the per-job maximum starts from 1 instead of 0
jobCompletionTime_FromOne(O, job) ==
    MaxOfSet({1} \cup {O[job.operations[k]].endTime :
                         k \in {x \in 1..Len(job.operations) :
                                   isScheduled(O[job.operations[x]])}})

jobCompletionTime(O, job) ==
    MaxOfSet({0} \cup {O[job.operations[k]].endTime :
                         k \in {x \in 1..Len(job.operations) :
                                   isScheduled(O[job.operations[x]])}})

\* mutant: the metrics of the call before are not cleared
ResetMetrics_Skipped(r) == r

\* the two assignments that open calculateMetrics
ResetMetrics(r) == [r EXCEPT !.makespan = 0, !.totalCompletionTime = 0]

\* mutant: makespan accumulated with + like totalCompletionTime
RECURSIVE MetricsLoop_SumSpan(_, _, _)
MetricsLoop_SumSpan(r, O, i) ==
    IF i > Len(r.problem.jobs) THEN r
    ELSE LET jct == jobCompletionTime(O, jobObjs[r.problem.jobs[i]])
         IN  MetricsLoop_SumSpan([r EXCEPT !.totalCompletionTime = @ + jct,
                                           !.makespan = @ + jct], O, i + 1)

\* mutant: totalCompletionTime assigned with = instead of +=
RECURSIVE MetricsLoop_Assign(_, _, _)
MetricsLoop_Assign(r, O, i) ==
    IF i > Len(r.problem.jobs) THEN r
    ELSE LET jct == jobCompletionTime(O, jobObjs[r.problem.jobs[i]])
         IN  MetricsLoop_Assign([r EXCEPT !.totalCompletionTime = jct,
                                          !.makespan = Max2(@, jct)], O, i + 1)

RECURSIVE MetricsLoop(_, _, _)
MetricsLoop(r, O, i) ==
    IF i > Len(r.problem.jobs) THEN r
    ELSE LET jct == jobCompletionTime(O, jobObjs[r.problem.jobs[i]])
         IN  MetricsLoop([r EXCEPT !.totalCompletionTime = @ + jct,
                                   !.makespan = Max2(@, jct)], O, i + 1)

\* mutant: the division without the jobs.empty() test
AvgFlowTime_Unguarded(r) == <<r.totalCompletionTime, Len(r.problem.jobs)>>

\* avgFlowTime is a double in the code; it is kept here as the exact
\* fraction <<numerator, denominator>>.
AvgFlowTime(r) ==
    IF Len(r.problem.jobs) = 0 THEN <<0, 1>>
    ELSE <<r.totalCompletionTime, Len(r.problem.jobs)>>

calculateMetrics(r, O) ==
    LET m == MetricsLoop(ResetMetrics(r), O, 1)
    IN  [m EXCEPT !.avgFlowTime = AvgFlowTime(m)]

ScheduleResult ==
    [problem |-> [jobs |-> <<>>, machines |-> <<>>, numJobs |-> 0, numMachines |-> 0],
     makespan |-> 0, totalCompletionTime |-> 0, avgFlowTime |-> <<0, 1>>]

\* mutant: <= in the first test, so that a tie names the first result
compareSolutions_Leq(result1, result2) ==
    IF result1.makespan <= result2.makespan THEN "first"
    ELSE IF result2.makespan < result1.makespan THEN "second"
    ELSE "tie"

\* Solver::compareSolutions: which result the "Better Solution" line names
compareSolutions(result1, result2) ==
    IF result1.makespan < result2.makespan THEN "first"
    ELSE IF result2.makespan < result1.makespan THEN "second"
    ELSE "tie"

\* ------------------------------------------------------------------ state
\* Before anything is built: an empty ProblemInstance (zero jobs, zero
\* machines) and a default-constructed Solver.
Init ==
    /\ ops = <<>>
    /\ jobObjs = <<>>
    /\ machObjs = <<>>
    /\ problem = [jobs |-> <<>>, machines |-> <<>>, numJobs |-> 0, numMachines |-> 0]
    /\ algorithm = "FIFO"
    /\ sortTies = "kept"
    /\ pc = "new"
    /\ iteration = 0
    /\ operationScheduled = FALSE
    /\ cursor = 1
    /\ readyOperations = <<>>
    /\ results = <<>>
    /\ cerr = <<>>
    /\ thrown = "none"
    /\ lastCall = <<"init">>

\* ---------------------------------------------------------------- actions
\* The caller builds its problem (createJobs, createMachines, one
\* addOperation per row) and its solver (Solver(algo)); the build of the
\* program fixes what std::sort does with equal keys.
Setup(insts) ==
    /\ pc = "new"
    /\ \E inst \in insts :
          /\ ops' = inst.ops
          /\ jobObjs' = inst.jobObjs
          /\ machObjs' = inst.machObjs
          /\ problem' = inst.problem
    /\ algorithm' \in Rules
    /\ sortTies' \in {"kept", "reversed"}
    /\ pc' = "idle"
    /\ lastCall' = <<"setup">>
    /\ UNCHANGED <<iteration, operationScheduled, cursor, readyOperations,
                   results, cerr, thrown>>

\* Solver::setAlgorithm
SetAlgorithm ==
    /\ pc = "idle"
    /\ Len(results) < MaxSolves
    /\ \E algo \in Rules : algorithm' = algo
    /\ lastCall' = <<"setAlgorithm">>
    /\ thrown' = "none"
    /\ UNCHANGED <<ops, jobObjs, machObjs, problem, sortTies, pc, iteration,
                   operationScheduled, cursor, readyOperations, results, cerr>>

\* mutant: no null check, an empty result is handed back
SolveNull_Unchecked ==
    /\ pc = "idle"
    /\ thrown' = "none"
    /\ results' = Append(results, ScheduleResult)
    /\ lastCall' = <<"solve", "null">>
    /\ UNCHANGED <<ops, jobObjs, machObjs, problem, algorithm, sortTies, pc,
                   iteration, operationScheduled, cursor, readyOperations, cerr>>

\* Solver::solve(nullptr)
SolveNull ==
    /\ pc = "idle"
    /\ thrown' = NullProblemError
    /\ lastCall' = <<"solve", "null">>
    /\ UNCHANGED <<ops, jobObjs, machObjs, problem, algorithm, sortTies, pc,
                   iteration, operationScheduled, cursor, readyOperations,
                   results, cerr>>

\* Solver::solve(p) up to the first pass of the while condition: the resets
\* of scheduleFIFO / scheduleSPT / scheduleLPT, the loop locals, and for the
\* priority rules the ready set of round 1.
SolveBegin ==
    /\ pc = "idle"
    /\ Len(results) < MaxSolves
    /\ LET M == ResetMachines(machObjs)
           O == ResetOperations(ops)
       IN  /\ machObjs' = M
           /\ ops' = O
           /\ IF algorithm = "FIFO"
              THEN pc' = "FIFO" /\ readyOperations' = <<>>
              ELSE /\ pc' = "PRIO"
                   /\ readyOperations' =
                        SortByPriority(O, ReadyOperations(O), algorithm, sortTies)
    /\ iteration' = 1
    /\ operationScheduled' = FALSE
    /\ cursor' = 1
    /\ lastCall' = <<"solve", "p">>
    /\ thrown' = "none"
    /\ UNCHANGED <<jobObjs, problem, algorithm, sortTies, results, cerr>>

\* scheduleFIFO: the inner loops run on to the next operation they schedule
FifoStep ==
    /\ pc = "FIFO"
    /\ FifoNext(ops, cursor) # 0
    /\ LET i == FifoNext(ops, cursor)
           a == FifoAssign(ops, machObjs, i)
       IN  /\ ops' = a.ops
           /\ machObjs' = a.mach
           /\ cursor' = i + 1
    /\ operationScheduled' = TRUE
    /\ UNCHANGED <<jobObjs, problem, algorithm, sortTies, pc, iteration,
                   readyOperations, results, cerr, thrown, lastCall>>

\* scheduleFIFO: the inner loops end and the while condition holds
FifoNextRound ==
    /\ pc = "FIFO"
    /\ FifoNext(ops, cursor) = 0
    /\ operationScheduled /\ iteration < RoundLimit
    /\ operationScheduled' = FALSE
    /\ iteration' = iteration + 1
    /\ cursor' = 1
    /\ UNCHANGED <<ops, jobObjs, machObjs, problem, algorithm, sortTies, pc,
                   readyOperations, results, cerr, thrown, lastCall>>

\* the tail of solve: result->problem = *problem, calculateMetrics, return
Return ==
    /\ results' = Append(results,
                         calculateMetrics([ScheduleResult EXCEPT !.problem = problem], ops))
    /\ pc' = "idle"
    /\ cursor' = 1
    /\ readyOperations' = <<>>
    /\ UNCHANGED <<ops, jobObjs, machObjs, problem, algorithm, sortTies,
                   iteration, operationScheduled, thrown, lastCall>>

\* scheduleFIFO: the while loop ends; the warning; solve returns
FifoReturn ==
    /\ pc = "FIFO"
    /\ FifoNext(ops, cursor) = 0
    /\ ~(operationScheduled /\ iteration < RoundLimit)
    /\ cerr' = IF iteration >= RoundLimit THEN Append(cerr, RoundLimitWarning) ELSE cerr
    /\ Return

\* scheduleWithPriority: the for loop runs on to the next operation it schedules
PrioStep ==
    /\ pc = "PRIO"
    /\ PrioNext(ops, readyOperations, cursor) # 0
    /\ LET i == PrioNext(ops, readyOperations, cursor)
           a == PrioAssign(ops, machObjs, readyOperations[i])
       IN  /\ ops' = a.ops
           /\ machObjs' = a.mach
           /\ cursor' = i + 1
    /\ operationScheduled' = TRUE
    /\ UNCHANGED <<jobObjs, problem, algorithm, sortTies, pc, iteration,
                   readyOperations, results, cerr, thrown, lastCall>>

\* scheduleWithPriority: the for loop ends, the while condition holds, and
\* the next round collects and sorts its ready operations
PrioNextRound ==
    /\ pc = "PRIO"
    /\ PrioNext(ops, readyOperations, cursor) = 0
    /\ operationScheduled /\ iteration < RoundLimit
    /\ operationScheduled' = FALSE
    /\ iteration' = iteration + 1
    /\ readyOperations' = SortByPriority(ops, ReadyOperations(ops), algorithm, sortTies)
    /\ cursor' = 1
    /\ UNCHANGED <<ops, jobObjs, machObjs, problem, algorithm, sortTies, pc,
                   results, cerr, thrown, lastCall>>

\* scheduleWithPriority: the while loop ends (no warning here); solve returns
PrioReturn ==
    /\ pc = "PRIO"
    /\ PrioNext(ops, readyOperations, cursor) = 0
    /\ ~(operationScheduled /\ iteration < RoundLimit)
    /\ cerr' = cerr
    /\ Return

\* ScheduleResult::calculateMetrics called again on a returned result
CalculateMetrics ==
    /\ pc = "idle"
    /\ \E i \in 1..Len(results) :
          /\ results' = [results EXCEPT ![i] = calculateMetrics(@, ops)]
          /\ lastCall' = <<"calculateMetrics", i,
                           IF lastCall[1] = "calculateMetrics" /\ lastCall[2] = i
                           THEN 2 ELSE 1>>
    /\ thrown' = "none"
    /\ UNCHANGED <<ops, jobObjs, machObjs, problem, algorithm, sortTies, pc,
                   iteration, operationScheduled, cursor, readyOperations, cerr>>

\* Solver::compareSolutions on two returned results: it only prints
CompareSolutions ==
    /\ pc = "idle"
    /\ \E i, j \in 1..Len(results) :
          lastCall' = <<"compareSolutions", i, j, compareSolutions(results[i], results[j])>>
    /\ thrown' = "none"
    /\ UNCHANGED <<ops, jobObjs, machObjs, problem, algorithm, sortTies, pc, iteration,
                   operationScheduled, cursor, readyOperations, results, cerr>>

SolveStep ==
    \/ FifoStep
    \/ FifoNextRound
    \/ FifoReturn
    \/ PrioStep
    \/ PrioNextRound
    \/ PrioReturn

Calls ==
    \/ SetAlgorithm
    \/ SolveNull
    \/ SolveBegin
    \/ SolveStep
    \/ CalculateMetrics
    \/ CompareSolutions

Next ==
    \/ Setup(Instances)
    \/ Calls

Spec == Init /\ [][Next]_vars

\* solve is a synchronous loop: once entered it keeps running.  A SolveStep
\* is enabled exactly while a solve is in flight (SolveStepEnabled below), so
\* weak fairness of SolveStep is written with that condition in the place of
\* ENABLED <<SolveStep>>_vars.
InFlight == pc \in {"FIFO", "PRIO"}

SolveStepEnabled == InFlight <=> ENABLED <<SolveStep>>_vars

Fairness == []<>(~InFlight) \/ []<><<SolveStep>>_vars

FairSpec == Spec /\ Fairness

\* the same program run on the instances with non-positive durations
NextDegenerate ==
    \/ Setup(DegenerateInstances)
    \/ Calls

SpecDegenerate == Init /\ [][NextDegenerate]_vars

\* every instance, the degenerate ones included
NextAll ==
    \/ Setup(Instances \cup DegenerateInstances)
    \/ Calls

SpecAll == Init /\ [][NextAll]_vars

\* The caller obtains its problem from a parser entry point instead of
\* building it: the instance is loaded when the parser returns; when it
\* throws there is no problem and the caller gives up.
Parse(entry, r, text) ==
    /\ lastCall' = <<entry, text>>
    /\ thrown' = r.thrown
    /\ IF r.thrown = "none"
       THEN /\ ops' = r.ops
            /\ jobObjs' = r.jobObjs
            /\ machObjs' = r.machObjs
            /\ problem' = r.problem
            /\ pc' = "idle"
       ELSE /\ pc' = "failed"
            /\ UNCHANGED <<ops, jobObjs, machObjs, problem>>
    /\ UNCHANGED <<algorithm, sortTies, iteration, operationScheduled, cursor,
                   readyOperations, results, cerr>>

ParseFile ==
    /\ pc = "new"
    /\ \E text \in Texts : Parse("parseFile", parseFile(text), text)

ParseString ==
    /\ pc = "new"
    /\ \E text \in Texts : Parse("parseString", parseString(text), text)

NextParser ==
    \/ ParseFile
    \/ ParseString

SpecParser == Init /\ [][NextParser]_vars

\* ------------------------------------------------- the domain model's API
\* Calls made on the domain model directly, as the tests and the parsers
\* make them.  lastCall holds <<method, receiver, argument(s), result>>.
ApiInstances ==
    {MakeProblem(1, 1, <<Row(0, 0, 2)>>, FALSE),
     MakeProblem(2, 2, <<Row(0, 0, 1), Row(1, 1, 2), Row(1, 0, 1)>>, FALSE)}

Indices == (0 - 1)..(MaxRows + 1)

Handles(heap) == {Null} \cup DOMAIN heap

TotalScheduled ==
    SumOver([mh \in DOMAIN machObjs |-> Len(machObjs[mh].scheduledOperations)],
            DOMAIN machObjs)

GetJob ==
    /\ pc = "idle"
    /\ \E jobId \in Indices :
          lastCall' = <<"getJob", jobId, getJob(problem, jobId)>>
    /\ thrown' = "none"
    /\ UNCHANGED <<ops, jobObjs, machObjs, problem, algorithm, sortTies, pc, iteration,
                   operationScheduled, cursor, readyOperations, results, cerr>>

GetMachine ==
    /\ pc = "idle"
    /\ \E machineId \in Indices :
          lastCall' = <<"getMachine", machineId, getMachine(problem, machineId)>>
    /\ thrown' = "none"
    /\ UNCHANGED <<ops, jobObjs, machObjs, problem, algorithm, sortTies, pc, iteration,
                   operationScheduled, cursor, readyOperations, results, cerr>>

GetOperation ==
    /\ pc = "idle"
    /\ \E jh \in DOMAIN jobObjs, index \in Indices :
          lastCall' = <<"getOperation", jh, index, getOperation(jobObjs[jh], index)>>
    /\ thrown' = "none"
    /\ UNCHANGED <<ops, jobObjs, machObjs, problem, algorithm, sortTies, pc, iteration,
                   operationScheduled, cursor, readyOperations, results, cerr>>

AddOperation ==
    /\ pc = "idle"
    /\ \E jh \in DOMAIN jobObjs, h \in Handles(ops) :
          /\ h # Null => Len(jobObjs[jh].operations) < MaxApiCalls
          /\ jobObjs' = [jobObjs EXCEPT ![jh] = addOperation(@, h)]
          /\ lastCall' = <<"addOperation", jh, h>>
    /\ thrown' = "none"
    /\ UNCHANGED <<ops, machObjs, problem, algorithm, sortTies, pc, iteration,
                   operationScheduled, cursor, readyOperations, results, cerr>>

ScheduleOperation ==
    /\ pc = "idle"
    /\ \E mh \in DOMAIN machObjs, h \in Handles(ops), startTime \in 0..MaxDur :
          /\ h # Null => TotalScheduled < MaxApiCalls
          /\ LET a == scheduleOperation(ops, machObjs, mh, h, startTime)
             IN  ops' = a.ops /\ machObjs' = a.mach
          /\ lastCall' = <<"scheduleOperation", mh, h, startTime>>
    /\ thrown' = "none"
    /\ UNCHANGED <<jobObjs, problem, algorithm, sortTies, pc, iteration,
                   operationScheduled, cursor, readyOperations, results, cerr>>

NextApi ==
    \/ Setup(ApiInstances)
    \/ GetJob
    \/ GetMachine
    \/ GetOperation
    \/ AddOperation
    \/ ScheduleOperation

SpecApi == Init /\ [][NextApi]_vars

\* --------------------------------------- rebuilding and clearing the problem
\* createJobs / createMachines replace the vector by `count` fresh objects
\* (none for count <= 0) and store count as given; clear() empties every
\* job's operations and resets every machine, the vectors and counts stay.
Counts == (0 - 1)..MaxJobs

CreateJobs ==
    /\ pc = "idle"
    /\ \E count \in Counts :
          LET cj == createJobs(count)
          IN  /\ jobObjs' = cj.jobs
              /\ problem' = [problem EXCEPT !.jobs = Iota(Len(cj.jobs)),
                                            !.numJobs = cj.numJobs]
              /\ lastCall' = <<"createJobs", count>>
    /\ thrown' = "none"
    /\ UNCHANGED <<ops, machObjs, algorithm, sortTies, pc, iteration,
                   operationScheduled, cursor, readyOperations, results, cerr>>

CreateMachines ==
    /\ pc = "idle"
    /\ \E count \in Counts :
          LET cm == createMachines(count)
          IN  /\ machObjs' = cm.machines
              /\ problem' = [problem EXCEPT !.machines = Iota(Len(cm.machines)),
                                            !.numMachines = cm.numMachines]
              /\ lastCall' = <<"createMachines", count>>
    /\ thrown' = "none"
    /\ UNCHANGED <<ops, jobObjs, algorithm, sortTies, pc, iteration,
                   operationScheduled, cursor, readyOperations, results, cerr>>

clear(J, M, p) ==
    [jobObjs |-> [jh \in DOMAIN J |->
                    IF \E i \in 1..Len(p.jobs) : p.jobs[i] = jh
                    THEN [J[jh] EXCEPT !.operations = <<>>] ELSE J[jh]],
     machObjs |-> [mh \in DOMAIN M |->
                    IF \E i \in 1..Len(p.machines) : p.machines[i] = mh
                    THEN reset(M[mh]) ELSE M[mh]]]

Clear ==
    /\ pc = "idle"
    /\ LET c == clear(jobObjs, machObjs, problem)
       IN  jobObjs' = c.jobObjs /\ machObjs' = c.machObjs
    /\ lastCall' = <<"clear">>
    /\ thrown' = "none"
    /\ UNCHANGED <<ops, problem, algorithm, sortTies, pc, iteration,
                   operationScheduled, cursor, readyOperations, results, cerr>>

NextCounts ==
    \/ Setup(ApiInstances)
    \/ CreateJobs
    \/ CreateMachines
    \/ Clear
    \/ ScheduleOperation

SpecCounts == Init /\ [][NextCounts]_vars

\* ------------------------------------------------ a problem with one more job
\* After a solve the caller notes the start/end times and the metrics it got,
\* and extends its problem by one job with no operation:
\* jobs.push_back(make_shared<Job>(numJobs)); numJobs++ (the problem that
\* createJobs(numJobs + 1) and the same rows would have built).
AddEmptyJob ==
    /\ pc = "idle"
    /\ lastCall = <<"solve", "p">>
    /\ problem.numJobs >= 0
    /\ Len(problem.jobs) <= MaxJobs
    /\ jobObjs' = Append(jobObjs, Job(problem.numJobs))
    /\ problem' = [problem EXCEPT !.jobs = Append(@, Len(jobObjs) + 1),
                                  !.numJobs = @ + 1]
    /\ lastCall' = <<"addEmptyJob",
                     [h \in DOMAIN ops |-> <<ops[h].startTime, ops[h].endTime>>],
                     <<results[Len(results)].makespan,
                       results[Len(results)].totalCompletionTime,
                       results[Len(results)].avgFlowTime>>>>
    /\ UNCHANGED <<ops, machObjs, algorithm, sortTies, pc, iteration,
                   operationScheduled, cursor, readyOperations, results, cerr, thrown>>

NextEmptyJob ==
    \/ Setup(Instances)
    \/ Calls
    \/ AddEmptyJob

SpecEmptyJob == Init /\ [][NextEmptyJob]_vars

\* --------------------------------------- the same job stored in another order
\* Job::operations is a public vector: after a solve the caller notes the
\* start/end times it got and swaps two neighbouring entries of one job's
\* vector (std::swap(job->operations[k], job->operations[k + 1])); the
\* operations keep their operationIds.
SwapAt(s, k) == [i \in 1..Len(s) |-> IF i = k THEN s[k + 1] ELSE IF i = k + 1 THEN s[k] ELSE s[i]]

PermuteStorage ==
    /\ pc = "idle"
    /\ lastCall = <<"solve", "p">>
    /\ \E i \in 1..Len(problem.jobs) :
          \E k \in 1..(Len(jobObjs[problem.jobs[i]].operations) - 1) :
              jobObjs' = [jobObjs EXCEPT ![problem.jobs[i]].operations = SwapAt(@, k)]
    /\ lastCall' = <<"permuteStorage",
                     [h \in DOMAIN ops |-> <<ops[h].startTime, ops[h].endTime>>]>>
    /\ UNCHANGED <<ops, machObjs, problem, algorithm, sortTies, pc, iteration,
                   operationScheduled, cursor, readyOperations, results, cerr, thrown>>

NextPermute ==
    \/ Setup(Instances)
    \/ Calls
    \/ PermuteStorage

SpecPermute == Init /\ [][NextPermute]_vars

\* ------------------------------------------- the FIFO loop at another limit
\* The while loop and the warning test of scheduleFIFO with the literal 1000
\* as a parameter: `while (operationScheduled && iteration < limit)` and
\* `if (iteration >= limit)`.  A job of `limit - 1` operations stored in
\* decreasing operationId order needs `limit - 1` rounds that schedule one
\* operation each; with the source's 1000 that is a job of 999 operations,
\* so the pass is evaluated at ScaledLimit on the jobs the instances hold.
ScaledLimit == 3

RECURSIVE FifoLoopWithin(_, _, _, _, _)
FifoLoopWithin(limit, O, M, it, scheduled) ==
    IF scheduled /\ it < limit
    THEN LET r == FifoRound(O, M, 1, FALSE)
         IN  FifoLoopWithin(limit, r.ops, r.mach, it + 1, r.operationScheduled)
    ELSE [ops |-> O, mach |-> M, iteration |-> it, warning |-> it >= limit]

scheduleFIFOWithin(limit, O, M) ==
    FifoLoopWithin(limit, ResetOperations(O), ResetMachines(M), 0, TRUE)

\* ============================================================ properties
\* what is seen through a ProblemInstance value p (the caller's, or the copy
\* held by a result)
JobsOf(p) == {p.jobs[i] : i \in 1..Len(p.jobs)}

OpsOfJob(jh) == {jobObjs[jh].operations[k] : k \in 1..Len(jobObjs[jh].operations)}

OpsOf(p) == UNION {OpsOfJob(jh) : jh \in JobsOf(p)}

MachinesOf(p) == {p.machines[i] : i \in 1..Len(p.machines)}

Solving == InFlight

Solved == pc = "idle" /\ results # <<>>

JustSolved == pc = "idle" /\ lastCall = <<"solve", "p">>

StorageOrderDiffers ==
    \E jh \in JobsOf(problem) :
        \E x, y \in 1..Len(jobObjs[jh].operations) :
            /\ x < y
            /\ ops[jobObjs[jh].operations[x]].operationId
                 > ops[jobObjs[jh].operations[y]].operationId

Overlap(a, b) ==
    /\ a.startTime < a.endTime
    /\ b.startTime < b.endTime
    /\ a.startTime < b.endTime
    /\ b.startTime < a.endTime

\* C2  Machine exclusivity: in every state during and after solve, the
\* operations in each machine's scheduled list have pairwise non-overlapping
\* [start, end) intervals, and each one starts at or after the end of the
\* operation scheduled before it on that machine.
C2_MachineExclusivity ==
    \A mh \in MachinesOf(problem) :
        LET L == machObjs[mh].scheduledOperations
        IN  /\ \A x, y \in 1..Len(L) : x < y => ~Overlap(ops[L[x]], ops[L[y]])
            /\ \A x \in 2..Len(L) : ops[L[x]].startTime >= ops[L[x - 1]].endTime

\* C2, the first half alone: no two operations in a machine's list overlap.
C2_NoOverlap ==
    \A mh \in MachinesOf(problem) :
        LET L == machObjs[mh].scheduledOperations
        IN  \A x, y \in 1..Len(L) : x < y => ~Overlap(ops[L[x]], ops[L[y]])

ValidInstance ==
    \A jh \in JobsOf(problem) :
        /\ Len(jobObjs[jh].operations) <= RoundLimit
        /\ \A h \in OpsOfJob(jh) :
              /\ ops[h].processingTime >= 1
              /\ getMachine(problem, ops[h].machineId) # Null
              /\ ops[h].jobId = jobObjs[jh].jobId

AllOperationsScheduled ==
    \A h \in OpsOf(problem) :
        ops[h].endTime > ops[h].startTime /\ ops[h].startTime >= 0

\* C3  Completeness: on a problem whose operations all have duration >= 1, an
\* existing machine and the jobId of the job that stores them, and whose jobs
\* have at most RoundLimit operations, solve with any rule terminates, and
\* once it has returned every operation is scheduled (endTime > startTime >= 0).
C3_Completeness ==
    /\ []((Solved /\ ValidInstance) => AllOperationsScheduled)
    /\ ((Solving /\ ValidInstance) ~> (pc = "idle"))

\* C3 witness: solve has returned on a valid problem with three operations,
\* two of them in one job, all scheduled.
C3_Witness ==
    /\ JustSolved
    /\ ValidInstance
    /\ Cardinality(OpsOf(problem)) = 3
    /\ \E jh \in JobsOf(problem) : Len(jobObjs[jh].operations) = 2
    /\ AllOperationsScheduled

LastResult == results[Len(results)]

\* the results whose metrics were computed by the call that has just ended
FreshMetrics ==
    IF JustSolved THEN {Len(results)}
    ELSE IF pc = "idle" /\ lastCall[1] = "calculateMetrics" THEN {lastCall[2]}
    ELSE {}

MaxScheduledEnd(p) ==
    MaxOfSet({0} \cup {ops[h].endTime : h \in {x \in OpsOf(p) : isScheduled(ops[x])}})

\* C4  Makespan: in the result solve returns, and after any call of
\* calculateMetrics, makespan is the largest endTime among the scheduled
\* operations of result.problem, and 0 when none is scheduled.
C4_Makespan ==
    \A i \in FreshMetrics : results[i].makespan = MaxScheduledEnd(results[i].problem)

\* C4 witness: solve has just returned a schedule of two non-empty jobs that
\* end at different times.
C4_Witness ==
    /\ JustSolved
    /\ LastResult.makespan >= 3
    /\ \E j1, j2 \in JobsOf(LastResult.problem) :
          jobCompletionTime(ops, jobObjs[j1]) > jobCompletionTime(ops, jobObjs[j2])
          /\ jobCompletionTime(ops, jobObjs[j2]) > 0

\* largest endTime among all operations of a job, scheduled or not
JobMaxEnd(jh) == MaxOfSet({0} \cup {ops[h].endTime : h \in OpsOfJob(jh)})

\* largest endTime among the scheduled operations of a job
JobMaxScheduledEnd(jh) ==
    MaxOfSet({0} \cup {ops[h].endTime : h \in {x \in OpsOfJob(jh) : isScheduled(ops[x])}})

\* avgFlowTime * numJobs = totalCompletionTime, and avgFlowTime = 0 if numJobs = 0
AverageOverDeclaredJobs(r) ==
    /\ r.avgFlowTime[1] * r.problem.numJobs = r.totalCompletionTime * r.avgFlowTime[2]
    /\ r.problem.numJobs = 0 => r.avgFlowTime[1] = 0

View(p) ==
    [jobs |-> [i \in 1..Len(p.jobs) |->
                 [k \in 1..Len(jobObjs[p.jobs[i]].operations) |->
                     ops[jobObjs[p.jobs[i]].operations[k]]]],
     machines |-> [i \in 1..Len(p.machines) |-> machObjs[p.machines[i]]]]

\* C6  Stored results are independent snapshots: once r = solve(p) has
\* returned, no later step (a second solve(p) in particular) changes the
\* start/end times, machine lists or availableTime seen through r.problem,
\* and r.makespan stays the largest endTime in r.problem.
C6_IndependentSnapshot ==
    [][\A i \in 1..Len(results) :
          /\ View(results[i].problem)' = View(results[i].problem)
          /\ (results[i].makespan = MaxScheduledEnd(results[i].problem))
                => (results[i].makespan = MaxScheduledEnd(results[i].problem))']_vars

\* C7  Null input: solve(null) throws "Problem instance is null" before any
\* scheduling step, returns no result, and changes neither the solver's rule
\* nor any problem instance.
C7_NullInput ==
    [][(lastCall' = <<"solve", "null">> /\ lastCall' # lastCall)
          => /\ thrown' = NullProblemError
             /\ UNCHANGED <<ops, jobObjs, machObjs, problem, algorithm, results,
                            pc, iteration, operationScheduled, cursor,
                            readyOperations, cerr>>]_vars

\* C7 witness: solve(null) has thrown on a solver set to SPT that had
\* already returned a result.
C7_Witness ==
    /\ lastCall = <<"solve", "null">>
    /\ thrown = NullProblemError
    /\ algorithm = "SPT"
    /\ results # <<>>
    /\ LastResult.makespan > 0

Metrics(r) == <<r.makespan, r.totalCompletionTime, r.avgFlowTime>>

\* C8  Metrics idempotence: a calculateMetrics call that directly follows a
\* calculateMetrics call on the same result leaves makespan,
\* totalCompletionTime and avgFlowTime as the first call set them.
C8_MetricsIdempotent ==
    [][\A i \in 1..Len(results) :
          lastCall' = <<"calculateMetrics", i, 2>>
              => Metrics(results[i])' = Metrics(results[i])]_vars

\* C8 witness: calculateMetrics has run twice in a row on a result with
\* non-zero metrics.
C8_Witness ==
    \E i \in 1..Len(results) :
        /\ lastCall = <<"calculateMetrics", i, 2>>
        /\ results[i].totalCompletionTime > results[i].makespan
        /\ results[i].makespan > 0

\* the problem as it was built: every operation unscheduled, every machine empty
FreshOps ==
    [h \in DOMAIN ops |->
        Operation(ops[h].jobId, ops[h].machineId, ops[h].processingTime,
                  ops[h].operationId)]

FreshMachines == [mh \in DOMAIN machObjs |-> Machine(machObjs[mh].machineId)]

\* C9  Self-contained solve: whatever schedule p carried when solve(p) began,
\* the start/end times, machine lists and metrics solve leaves are those of
\* solving a fresh problem with the same jobs, operations and machines under
\* the same rule.
C9_SelfContained ==
    JustSolved =>
        LET fresh == Schedule(FreshOps, FreshMachines, algorithm, sortTies)
        IN  /\ ops = fresh.ops
            /\ machObjs = fresh.mach
            /\ Metrics(LastResult) =
                 Metrics(calculateMetrics([ScheduleResult EXCEPT !.problem = problem],
                                          fresh.ops))

\* C9 witness: a second solve has returned on a problem that carried the
\* different schedule of the first.
C9_Witness ==
    /\ JustSolved
    /\ Len(results) = 2
    /\ results[1].totalCompletionTime # results[2].totalCompletionTime
    /\ results[2].makespan > 0

\* C10  Round-limit diagnostic: when the scheduling loop of any rule stops at
\* the round limit with operations still unscheduled, solve does not throw,
\* returns a result, and writes a diagnostic.
C10_RoundLimitDiagnostic ==
    [][(/\ Solving
        /\ pc' = "idle"
        /\ iteration >= RoundLimit
        /\ operationScheduled
        /\ \E h \in OpsOf(problem) : ~isScheduled(ops[h]))
          => /\ thrown' = "none"
             /\ Len(results') = Len(results) + 1
             /\ Len(cerr') > Len(cerr)]_vars

\* C10 for FIFO alone, where the warning is written
C10_FifoDiagnostic ==
    [][(/\ pc = "FIFO"
        /\ pc' = "idle"
        /\ iteration >= RoundLimit
        /\ operationScheduled
        /\ \E h \in OpsOf(problem) : ~isScheduled(ops[h]))
          => /\ thrown' = "none"
             /\ Len(results') = Len(results) + 1
             /\ cerr' = Append(cerr, RoundLimitWarning)]_vars

\* the positions of the current round's ready set the for loop has passed
Passed == {x \in 1..Len(readyOperations) : x < cursor}

\* C11  Priority order: in an SPT or LPT round, of two ready operations that
\* require the same existing machine and have been committed in that round,
\* the one the rule prefers (strictly smaller duration under SPT, strictly
\* larger under LPT) has the strictly earlier start time.
C11_PriorityOrder ==
    pc = "PRIO" =>
        \A x, y \in Passed :
            LET a == ops[readyOperations[x]]
                b == ops[readyOperations[y]]
            IN  (/\ a.machineId = b.machineId
                 /\ getMachine(problem, a.machineId) # Null
                 /\ compare(algorithm, a, b)) => a.startTime < b.startTime

\* the single operation of the job at position i of p.jobs
OnlyOp(i) == ops[jobObjs[problem.jobs[i]].operations[1]]

\* every job has exactly one operation and all of them require one existing machine
OneSharedMachine ==
    /\ Len(problem.jobs) >= 1
    /\ \A i \in 1..Len(problem.jobs) : Len(jobObjs[problem.jobs[i]].operations) = 1
    /\ \A i \in 1..Len(problem.jobs) : OnlyOp(i).machineId = OnlyOp(1).machineId
    /\ getMachine(problem, OnlyOp(1).machineId) # Null

\* sum of the durations of the jobs at positions 1..k
PrefixSum(k) == SumOver([i \in 1..k |-> OnlyOp(i).processingTime], 1..k)

\* C12  FIFO on one shared machine: after a FIFO solve of a problem in which
\* every job has exactly one operation and all require the same machine, the
\* operation of job k starts at the sum of the durations of jobs 0..k-1,
\* makespan is the sum of all durations and totalCompletionTime is the sum of
\* the prefix sums.
C12_FifoSharedMachine ==
    (JustSolved /\ algorithm = "FIFO" /\ OneSharedMachine) =>
        LET n == Len(problem.jobs)
        IN  /\ \A k \in 1..n : OnlyOp(k).startTime = PrefixSum(k - 1)
            /\ LastResult.makespan = PrefixSum(n)
            /\ LastResult.totalCompletionTime = SumOver([k \in 1..n |-> PrefixSum(k)], 1..n)

\* the operations of job jh with an operationId below that of h
Predecessors(jh, h) == {x \in OpsOfJob(jh) : ops[x].operationId < ops[h].operationId}

\* the same-job operation just before h in operationId order
Predecessor(jh, h) ==
    CHOOSE x \in Predecessors(jh, h) :
        \A y \in Predecessors(jh, h) : ops[y].operationId <= ops[x].operationId

SumOfDurations(S) == SumOver([h \in S |-> ops[h].processingTime], S)

NothingToSchedule == Len(problem.jobs) = 0 \/ Len(problem.machines) = 0

\* C14  Empty and degenerate problems: a solve on a problem with zero jobs
\* (with or without machines) or with zero machines does not throw, commits
\* no operation, ends in its first round, and returns makespan = 0,
\* totalCompletionTime = 0 and avgFlowTime = 0 (a fraction 0/d with d # 0).
C14_NothingToSchedule ==
    ((Solving \/ JustSolved) /\ NothingToSchedule) =>
        /\ thrown = "none"
        /\ iteration = 1
        /\ ~operationScheduled
        /\ \A h \in OpsOf(problem) : ops[h].startTime = 0 /\ ops[h].endTime = 0
        /\ \A mh \in MachinesOf(problem) : machObjs[mh].scheduledOperations = <<>>
        /\ JustSolved =>
              /\ LastResult.makespan = 0
              /\ LastResult.totalCompletionTime = 0
              /\ LastResult.avgFlowTime[1] = 0
              /\ LastResult.avgFlowTime[2] # 0

\* C14 witness: a solve has returned on a problem with machines and no job.
C14_Witness ==
    /\ JustSolved
    /\ Len(problem.jobs) = 0
    /\ Len(problem.machines) = 2
    /\ LastResult.makespan = 0

\* C14, the other case: a solve has returned on two jobs with three
\* operations and no machine.
C14_WitnessNoMachine ==
    /\ JustSolved
    /\ algorithm = "LPT"
    /\ Len(problem.jobs) = 2
    /\ Len(problem.machines) = 0
    /\ Cardinality(OpsOf(problem)) = 3

\* a parser entry point has returned the problem now held
Parsed == pc = "idle" /\ lastCall[1] \in {"parseFile", "parseString"}

InRange(p, op) ==
    /\ getJob(p, op.jobId) # Null
    /\ getMachine(p, op.machineId) # Null
    /\ op.processingTime > 0

\* what a parser call hands to its caller: the error, or the jobs with their
\* operations (operation ids included) and the machines
Outcome(r) ==
    IF r.thrown # "none" THEN r
    ELSE [thrown |-> "none",
          jobs |-> [i \in 1..Len(r.problem.jobs) |->
                      [k \in 1..Len(r.jobObjs[r.problem.jobs[i]].operations) |->
                          r.ops[r.jobObjs[r.problem.jobs[i]].operations[k]]]],
          machines |-> [i \in 1..Len(r.problem.machines) |-> r.machObjs[r.problem.machines[i]]]]

\* C15  Parser filtering: a problem returned by parseFile or parseString
\* holds no operation with an out-of-range job id, an out-of-range machine id
\* or a non-positive duration, and on the same text the two entry points
\* produce the same jobs, operations and operation ids.
C15_ParserFiltering ==
    /\ Parsed => \A h \in OpsOf(problem) : InRange(problem, ops[h])
    /\ (/\ lastCall[1] \in {"parseFile", "parseString"}
        /\ parseFile(lastCall[2]).thrown = "none"
        /\ parseString(lastCall[2]).thrown = "none") =>
          Outcome(parseFile(lastCall[2])) = Outcome(parseString(lastCall[2]))

\* C15 for parseFile alone: what it returns holds only valid operations,
\* numbered 0, 1, 2, ... in row order
C15_FileFiltering ==
    (Parsed /\ lastCall[1] = "parseFile") =>
        /\ \A h \in OpsOf(problem) : InRange(problem, ops[h])
        /\ {ops[h].operationId : h \in OpsOf(problem)} = 0..(Cardinality(OpsOf(problem)) - 1)

\* C15, first half for parseString alone
C15_StringFiltering ==
    (Parsed /\ lastCall[1] = "parseString") =>
        \A h \in OpsOf(problem) : InRange(problem, ops[h])

ModelUnchanged == UNCHANGED <<ops, jobObjs, machObjs, problem>>

\* C16  Not-found and null handling: getJob, getMachine and getOperation
\* return null for a negative or too-large index, without throwing and
\* without changing anything; addOperation(null) leaves the job's list, and
\* scheduleOperation(null, t) the machine's list and availableTime (and every
\* operation), unchanged.
C16_NullHandling ==
    [][/\ (lastCall'[1] = "getJob"
             /\ (lastCall'[2] < 0 \/ lastCall'[2] >= Len(problem.jobs)))
          => (lastCall'[3] = Null /\ thrown' = "none" /\ ModelUnchanged)
       /\ (lastCall'[1] = "getMachine"
             /\ (lastCall'[2] < 0 \/ lastCall'[2] >= Len(problem.machines)))
          => (lastCall'[3] = Null /\ thrown' = "none" /\ ModelUnchanged)
       /\ (lastCall'[1] = "getOperation"
             /\ (lastCall'[3] < 0 \/ lastCall'[3] >= Len(jobObjs[lastCall'[2]].operations)))
          => (lastCall'[4] = Null /\ thrown' = "none" /\ ModelUnchanged)
       /\ (lastCall'[1] = "addOperation" /\ lastCall'[3] = Null)
          => (thrown' = "none" /\ ModelUnchanged)
       /\ (lastCall'[1] = "scheduleOperation" /\ lastCall'[3] = Null)
          => (thrown' = "none" /\ ModelUnchanged)]_vars

\* C16 witness: scheduleOperation(null, 2) has been called on a machine that
\* holds an operation, after addOperation put a second operation in a job.
C16_Witness ==
    /\ lastCall[1] = "scheduleOperation"
    /\ lastCall[3] = Null
    /\ lastCall[4] = 2
    /\ machObjs[lastCall[2]].availableTime = 1
    /\ Len(machObjs[lastCall[2]].scheduledOperations) = 1
    /\ Len(jobObjs[1].operations) = 2

\* C16, the null call on a job: addOperation(null) has been called on a job
\* that holds an operation
C16_WitnessAdd ==
    /\ lastCall[1] = "addOperation"
    /\ lastCall[3] = Null
    /\ Len(jobObjs[lastCall[2]].operations) = 1

\* C17  compareSolutions is observational: the call changes no field of a
\* result or of a problem (nor the solver), and it names result1 iff
\* result1.makespan < result2.makespan, result2 iff result2.makespan <
\* result1.makespan, and a tie iff the makespans are equal.
C17_CompareObservational ==
    [][lastCall'[1] = "compareSolutions" =>
          LET result1 == results[lastCall'[2]]
              result2 == results[lastCall'[3]]
              named == lastCall'[4]
          IN  /\ UNCHANGED <<ops, jobObjs, machObjs, problem, results, algorithm>>
              /\ thrown' = "none"
              /\ named = "first" <=> result1.makespan < result2.makespan
              /\ named = "second" <=> result2.makespan < result1.makespan
              /\ named = "tie" <=> result1.makespan = result2.makespan]_vars

\* C17 witness: two results of different makespan have been compared and the
\* second, lower one was named.
C17_Witness ==
    /\ lastCall[1] = "compareSolutions"
    /\ lastCall[4] = "second"
    /\ results[lastCall[2]].makespan > results[lastCall[3]].makespan
    /\ results[lastCall[3]].makespan > 0

\* C17, the tie: two distinct results of equal, non-zero makespan compared
C17_WitnessTie ==
    /\ lastCall[1] = "compareSolutions"
    /\ lastCall[2] # lastCall[3]
    /\ lastCall[4] = "tie"
    /\ results[lastCall[2]].makespan > 0

\* the job that stores operation h
OwnerOf(h) == CHOOSE jh \in JobsOf(problem) : h \in OpsOfJob(jh)

\* the end times of the same-job operations with a smaller operationId
PredecessorEnds(O, h) == {O[x].endTime : x \in Predecessors(OwnerOf(h), h)}

\* the scheduler appends an operation to the list of machine mh in this step
Commits(mh) ==
    /\ Solving
    /\ Len(machObjs'[mh].scheduledOperations) = Len(machObjs[mh].scheduledOperations) + 1

\* start is 0, the end of a same-job predecessor of the entry at position x
\* of machine mh's list, or the end of the entry before it, the ends taken
\* from O
StartsAtAnEnd(start, O, M, mh, x) ==
    LET L == M[mh].scheduledOperations
    IN  start \in {0} \cup PredecessorEnds(O, L[x])
                      \cup (IF x > 1 THEN {O[L[x - 1]].endTime} ELSE {})

C18_ScheduledStartAtAnEnd ==
    \A mh \in MachinesOf(problem) :
        \A x \in 1..Len(machObjs[mh].scheduledOperations) :
            isScheduled(ops[machObjs[mh].scheduledOperations[x]])
                => StartsAtAnEnd(ops[machObjs[mh].scheduledOperations[x]].startTime,
                                 ops, machObjs, mh, x)

C18_WitnessMachine ==
    /\ JustSolved
    /\ \E mh \in MachinesOf(problem) :
          LET L == machObjs[mh].scheduledOperations
          IN  \E x \in 2..Len(L) :
                  /\ ops[L[x]].startTime = ops[L[x - 1]].endTime
                  /\ PredecessorEnds(ops, L[x]) # {}
                  /\ \A e \in PredecessorEnds(ops, L[x]) : e < ops[L[x]].startTime

\* The round procedure of scheduleWithPriority with a comparator that leaves
\* the ready set as collected: the ready set is computed at the start of the
\* round and committed in that order.
RECURSIVE DeclarationOrderLoop(_, _, _, _)
DeclarationOrderLoop(O, M, it, scheduled) ==
    IF scheduled /\ it < RoundLimit
    THEN LET r == PrioRound(O, M, ReadyOperations(O), 1, FALSE)
         IN  DeclarationOrderLoop(r.ops, r.mach, it + 1, r.operationScheduled)
    ELSE [ops |-> O, mach |-> M, iteration |-> it]

DeclarationOrderPass == DeclarationOrderLoop(FreshOps, FreshMachines, 0, TRUE)

\* C19  One shared procedure: the start and end times a FIFO solve leaves are
\* those of the round procedure shared by SPT and LPT run with a comparator
\* that keeps declaration order.
C19_SharedProcedure ==
    (JustSolved /\ algorithm = "FIFO") =>
        \A h \in OpsOf(problem) :
            /\ ops[h].startTime = DeclarationOrderPass.ops[h].startTime
            /\ ops[h].endTime = DeclarationOrderPass.ops[h].endTime

\* the position of h in the sequence s
IndexIn(s, h) == CHOOSE i \in 1..Len(s) : s[i] = h

\* a round of scheduleWithPriority is about to commit its first operation
RoundStart == pc = "PRIO" /\ cursor = 1 /\ ~operationScheduled

\* C20  Stable tie-breaking: under SPT and LPT, two operations of equal
\* duration that are ready in the same round stand, in the sorted ready set
\* the round commits from, in their original ready-set order (job iteration
\* order, then storage order within the job).
C20_StableTies ==
    RoundStart =>
        LET original == ReadyOperations(ops)
        IN  \A x, y \in 1..Len(original) :
                (x < y /\ ops[original[x]].processingTime = ops[original[y]].processingTime)
                    => IndexIn(readyOperations, original[x])
                         < IndexIn(readyOperations, original[y])

\* C20 in a build whose std::sort keeps equal keys in input order
C20_StableWhenKept ==
    sortTies = "kept" => C20_StableTies

\* how many times operation h stands in the machines' scheduled lists, i.e.
\* how many times the current pass has committed it
CommitCount(h) ==
    SumOver([mh \in DOMAIN machObjs |->
                Cardinality({x \in 1..Len(machObjs[mh].scheduledOperations) :
                                machObjs[mh].scheduledOperations[x] = h})],
            DOMAIN machObjs)

\* C21  Exactly-once assignment: within one solve pass every operation is
\* committed at most once, on every problem instance, those with operations
\* of duration 0 included: no operation occurs twice in the machines'
\* scheduled lists, and a commit never falls on an operation that already
\* stands in a list (so its start/end do not change after the commit).
C21_ExactlyOnce ==
    [][\A mh \in DOMAIN machObjs :
          Commits(mh) =>
              LET L == machObjs'[mh].scheduledOperations
              IN  CommitCount(L[Len(L)]) = 0]_vars

\* C21 on the state alone: no operation occurs twice in the scheduled lists
C21_NoDuplicate == \A h \in DOMAIN ops : CommitCount(h) <= 1

\* what solve would leave on the caller's problem as it is now: the heaps
\* after the pass of the selected rule, and the metrics of the result
SolveOps == Schedule(FreshOps, FreshMachines, algorithm, sortTies).ops

Times(O) == [h \in DOMAIN O |-> <<O[h].startTime, O[h].endTime>>]

SolveOutcome ==
    LET O == SolveOps
        r == calculateMetrics([ScheduleResult EXCEPT !.problem = problem], O)
    IN  [times |-> Times(O), makespan |-> r.makespan,
         totalCompletionTime |-> r.totalCompletionTime, avgFlowTime |-> r.avgFlowTime]

SameFraction(a, b) == a[1] * b[2] = b[1] * a[2]

\* C22 as stated  Empty jobs are neutral: adding a job with zero operations
\* changes neither the start/end time of any operation nor makespan,
\* totalCompletionTime or avgFlowTime of the solve result: solve on the
\* extended problem gives what the solve before the extension gave.
C22_EmptyJobNeutral ==
    lastCall[1] = "addEmptyJob" =>
        LET after == SolveOutcome
        IN  /\ after.times = lastCall[2]
            /\ after.makespan = lastCall[3][1]
            /\ after.totalCompletionTime = lastCall[3][2]
            /\ SameFraction(after.avgFlowTime, lastCall[3][3])

\* C22 amended  Adding a job with zero operations changes neither the
\* start/end time of any operation nor makespan nor totalCompletionTime of
\* the solve result; avgFlowTime becomes totalCompletionTime divided by the
\* new number of jobs.
C22_EmptyJobTimes ==
    lastCall[1] = "addEmptyJob" =>
        LET after == SolveOutcome
        IN  /\ after.times = lastCall[2]
            /\ after.makespan = lastCall[3][1]
            /\ after.totalCompletionTime = lastCall[3][2]
            /\ SameFraction(after.avgFlowTime, <<lastCall[3][2], Len(problem.jobs)>>)

\* C22 witness: a job with no operation has been added to a problem of two
\* jobs whose solve scheduled three operations, and the average has changed.
C22_Witness ==
    /\ lastCall[1] = "addEmptyJob"
    /\ Len(problem.jobs) = 3
    /\ Len(jobObjs[problem.jobs[3]].operations) = 0
    /\ Cardinality({h \in DOMAIN ops : isScheduled(ops[h])}) = 3
    /\ lastCall[3][2] > lastCall[3][1]
    /\ ~SameFraction(SolveOutcome.avgFlowTime, lastCall[3][3])

\* ------------------------------------------------------------ C23
\* an operation of the problem whose machineId names no machine
Unreachable(h) == getMachine(problem, ops[h].machineId) = Null

\* h is unreachable or follows an unreachable operation of its job
BehindUnreachable(jh, h) ==
    \E g \in OpsOfJob(jh) : Unreachable(g) /\ ops[g].operationId <= ops[h].operationId

\* C23  Unreachable operations are absorbed: when some operation of the
\* problem references a machine id that has no machine, solve with any rule
\* does not fail and stops before the round limit; that operation and every
\* same-job operation with a larger operationId keep start = end = 0, and
\* every other operation with positive duration and a valid machine is
\* scheduled.
C23_UnreachableAbsorbed ==
    (JustSolved /\ \E h \in OpsOf(problem) : Unreachable(h)) =>
        /\ thrown = "none"
        /\ iteration < RoundLimit
        /\ \A jh \in JobsOf(problem) : \A h \in OpsOfJob(jh) :
              IF BehindUnreachable(jh, h)
              THEN ops[h].startTime = 0 /\ ops[h].endTime = 0
              ELSE (ops[h].processingTime > 0 /\ ~Unreachable(h)) => isScheduled(ops[h])

\* C23 witness: a solve returned on a problem in which one job has a scheduled
\* operation before an unreachable one and an operation left behind it, while
\* another job was scheduled.
C23_Witness ==
    /\ JustSolved
    /\ \E jh \in JobsOf(problem) : \E a, b \in OpsOfJob(jh) :
          /\ isScheduled(ops[a])
          /\ Unreachable(b)
          /\ ops[a].operationId < ops[b].operationId
    /\ \E jh \in JobsOf(problem) : \E h \in OpsOfJob(jh) :
          ~BehindUnreachable(jh, h) /\ isScheduled(ops[h]) /\ ~\E g \in OpsOfJob(jh) : Unreachable(g)

\* C23 witness: an operation with a valid machine stays at 0 behind an
\* unreachable operation of its job.
C23_WitnessBehind ==
    /\ JustSolved
    /\ \E jh \in JobsOf(problem) : \E b, c \in OpsOfJob(jh) :
          /\ Unreachable(b)
          /\ ~Unreachable(c)
          /\ ops[b].operationId < ops[c].operationId
          /\ ops[c].endTime = 0

\* ------------------------------------------------------------ C24
LastEnd(mh) ==
    LET L == machObjs[mh].scheduledOperations
    IN  IF Len(L) = 0 THEN 0 ELSE ops[L[Len(L)]].endTime

Referenced(mh) == \E h \in OpsOf(problem) : ops[h].machineId = machObjs[mh].machineId

AvailabilityHolds ==
    \A mh \in MachinesOf(problem) :
        /\ machObjs[mh].availableTime = LastEnd(mh)
        /\ ~Referenced(mh) => machObjs[mh].availableTime = 0

\* C24  Machine availability invariant: in every state reached during and
\* after solve, each machine's availableTime equals the endTime of the last
\* operation in its scheduled list and is 0 when the list is empty; a machine
\* referenced by no operation keeps availableTime 0; and no step of a solve
\* pass decreases a machine's availableTime.
C24_MachineAvailability ==
    [][/\ (InFlight' \/ Solved') => AvailabilityHolds'
       /\ InFlight =>
             \A mh \in MachinesOf(problem) :
                 machObjs'[mh].availableTime >= machObjs[mh].availableTime]_vars

\* C24, the part about the list: availableTime is the endTime of the last
\* entry, 0 for an empty list or an unreferenced machine.
C24_AvailableIsLastEnd == (InFlight \/ Solved) => AvailabilityHolds

\* C24 witness: during a solve one machine holds two operations and is
\* available at the end of the second, another machine is referenced by no
\* operation.
C24_Witness ==
    /\ InFlight
    /\ \E mh \in MachinesOf(problem) :
          /\ Len(machObjs[mh].scheduledOperations) = 2
          /\ machObjs[mh].availableTime = ops[machObjs[mh].scheduledOperations[2]].endTime
          /\ machObjs[mh].availableTime > ops[machObjs[mh].scheduledOperations[1]].endTime
    /\ \E mh \in MachinesOf(problem) : ~Referenced(mh)

\* ------------------------------------------------------------ C25
Rebuilt == pc = "idle" /\ lastCall[1] \in {"createJobs", "createMachines", "clear"}

CountsMatch ==
    /\ problem.numJobs = Len(problem.jobs)
    /\ problem.numMachines = Len(problem.machines)

IdsMatch ==
    /\ \A i \in 1..Len(problem.jobs) : jobObjs[problem.jobs[i]].jobId = i - 1
    /\ \A i \in 1..Len(problem.machines) : machObjs[problem.machines[i]].machineId = i - 1

\* C25  Count invariant: after any sequence of createJobs(n),
\* createMachines(m) and clear() calls with arbitrary integer arguments,
\* negative ones included, numJobs equals the number of jobs held and
\* numMachines the number of machines held, job i has jobId i and machine i
\* has machineId i.
C25_CountInvariant == Rebuilt => CountsMatch /\ IdsMatch

\* C25 without the negative arguments: the counts are the sizes whenever the
\* declared counts are not negative, and the ids are the positions always.
C25_CountNonNegative ==
    Rebuilt => /\ IdsMatch
               /\ problem.numJobs >= 0 => problem.numJobs = Len(problem.jobs)
               /\ problem.numMachines >= 0 => problem.numMachines = Len(problem.machines)
               /\ problem.numJobs < 0 => Len(problem.jobs) = 0
               /\ problem.numMachines < 0 => Len(problem.machines) = 0

\* C25 witness: createJobs(2) has replaced the one job of a problem whose
\* operation had been put on its machine.
C25_Witness ==
    /\ lastCall = <<"createJobs", 2>>
    /\ TotalScheduled = 1
    /\ Len(problem.jobs) = 2
    /\ Len(problem.machines) = 1
    /\ \A i \in 1..2 : Len(jobObjs[problem.jobs[i]].operations) = 0

\* ------------------------------------------------------------ C26
\* C26  Storage order does not matter: for every rule, permuting the storage
\* order of the operations inside a job while keeping their operationIds
\* gives the same start and end time for every operation: solve on the
\* permuted problem gives the times the solve before the permutation gave.
C26_StorageOrder ==
    lastCall[1] = "permuteStorage" => Times(SolveOps) = lastCall[2]

\* C26 for the rules that collect the ready set before committing (SPT, LPT)
C26_StorageOrderPriority ==
    (lastCall[1] = "permuteStorage" /\ algorithm # "FIFO") => Times(SolveOps) = lastCall[2]

\* C26 witness: the storage of a two-operation job was permuted in a problem
\* where another job shares a machine with it, and all three operations are
\* scheduled.
C26_Witness ==
    /\ lastCall[1] = "permuteStorage"
    /\ \E jh \in JobsOf(problem) : \E a, b \in OpsOfJob(jh) :
          /\ ops[a].operationId < ops[b].operationId
          /\ \E x \in OpsOf(problem) \ OpsOfJob(jh) : ops[x].machineId = ops[b].machineId
    /\ \A h \in OpsOf(problem) : isScheduled(SolveOps[h])
    /\ Cardinality(OpsOf(problem)) = 3

\* ------------------------------------------------------------ C27
\* operations of job jh with duration 0 on an existing machine
ZeroDurationOps(jh) ==
    {z \in OpsOfJob(jh) : ops[z].processingTime = 0 /\ ~Unreachable(z)}

\* the zero-duration operations and what follows them never read as scheduled
ZeroDurationBlocks ==
    \A jh \in JobsOf(problem) : \A z \in ZeroDurationOps(jh) :
        /\ ~isScheduled(ops[z])
        /\ \A h \in OpsOfJob(jh) :
              ops[h].operationId > ops[z].operationId => ~isScheduled(ops[h])

ExhaustedRoundLimit == iteration >= RoundLimit /\ operationScheduled

\* C27 as stated  Zero-duration operations block their job: if a job contains
\* an operation of duration 0 on an existing machine, then during and after
\* solve with any rule that operation reads as unscheduled and no same-job
\* operation with a larger operationId is scheduled, and the loop ends by
\* exhausting the round limit instead of by a round that schedules nothing.
C27_ZeroDurationExhausts ==
    /\ (InFlight \/ JustSolved) => ZeroDurationBlocks
    /\ (JustSolved /\ \E jh \in JobsOf(problem) : ZeroDurationOps(jh) # {}) =>
          ExhaustedRoundLimit

\* C27 amended  The zero-duration operation reads as unscheduled and no
\* same-job operation with a larger operationId is scheduled; the loop ends
\* by exhausting the round limit when some zero-duration operation is ready,
\* that is, every same-job operation with a smaller operationId is scheduled.
C27_ZeroDurationBlocksJob ==
    /\ (InFlight \/ JustSolved) => ZeroDurationBlocks
    /\ (JustSolved /\ \E jh \in JobsOf(problem) : \E z \in ZeroDurationOps(jh) :
                          \A x \in Predecessors(jh, z) : isScheduled(ops[x])) =>
          ExhaustedRoundLimit

\* C27 witness: a solve returned at the round limit with a zero-duration
\* operation committed and an operation of positive duration left behind it.
C27_Witness ==
    /\ JustSolved
    /\ ExhaustedRoundLimit
    /\ \E jh \in JobsOf(problem) : \E z \in ZeroDurationOps(jh) : \E h \in OpsOfJob(jh) :
          /\ CommitCount(z) > 1
          /\ ops[h].operationId > ops[z].operationId
          /\ ops[h].processingTime > 0
          /\ ~Unreachable(h)
          /\ ops[h].endTime = 0

\* C27 witness: a zero-duration operation behind an unreachable one is never
\* committed and the loop ends by a round that schedules nothing.
C27_WitnessNotReady ==
    /\ JustSolved
    /\ ~ExhaustedRoundLimit
    /\ \E jh \in JobsOf(problem) : \E z \in ZeroDurationOps(jh) : CommitCount(z) = 0

\* ------------------------------------------------------------ C28
SomeUnscheduled(O) == \E h \in OpsOf(problem) : ~isScheduled(O[h])

\* C28  No false round-limit warning: the FIFO diagnostic is emitted only if
\* at least one operation is still unscheduled when the loop stops; a pass
\* in which every operation was scheduled never emits it, whatever number of
\* rounds it needed.  Stated of the loop with its limit scaled to
\* ScaledLimit, on the problem the state holds.
C28_NoFalseWarning ==
    pc = "idle" =>
        LET r == scheduleFIFOWithin(ScaledLimit, ops, machObjs)
        IN  r.warning => SomeUnscheduled(r.ops)

\* C28 at the source's limit, on the inputs the instances hold: a FIFO solve
\* that returned at the round limit left an operation unscheduled.
C28_NoFalseWarningAtRoundLimit ==
    (JustSolved /\ algorithm = "FIFO" /\ iteration >= RoundLimit) => SomeUnscheduled(ops)

\* at the source's limit the parameterised loop is scheduleFIFO
C28_SameLoopAtRoundLimit ==
    lastCall = <<"setup">> =>
        LET r == scheduleFIFOWithin(RoundLimit, ops, machObjs)
            f == scheduleFIFO(ops, machObjs)
        IN  /\ r.ops = f.ops /\ r.mach = f.mach /\ r.iteration = f.iteration
            /\ r.warning = (f.iteration >= RoundLimit)

\* ------------------------------------------------------------ C29
\* the times of h are no longer the 0/0 that the reset of the pass left
Committed(h) == ops[h].startTime # 0 \/ ops[h].endTime # 0

ViewsAgree ==
    /\ \A mh \in MachinesOf(problem) :
          LET L == machObjs[mh].scheduledOperations
          IN  /\ {L[x] : x \in 1..Len(L)} =
                    {h \in OpsOf(problem) : /\ isScheduled(ops[h])
                                            /\ ops[h].machineId = machObjs[mh].machineId}
              /\ \A x, y \in 1..Len(L) : x < y => L[x] # L[y]
              /\ \A x, y \in 1..Len(L) : x < y => ops[L[x]].startTime <= ops[L[y]].startTime
    /\ \A h \in OpsOf(problem) : CommitCount(h) > 0 <=> Committed(h)

\* C29  Job view and machine view agree: in every state during and after
\* solve, a machine's scheduled list contains exactly the operations of the
\* problem's jobs that are scheduled and have its machineId, each once, in
\* non-decreasing order of start time; an operation is in some machine's list
\* iff it has been committed in the current pass.
C29_ViewsAgree == (InFlight \/ Solved) => ViewsAgree

\* C29 witness: during a solve a machine holds two operations with different
\* start times while an operation of the problem is not yet committed.
C29_Witness ==
    /\ InFlight
    /\ \E mh \in MachinesOf(problem) :
          /\ Len(machObjs[mh].scheduledOperations) = 2
          /\ ops[machObjs[mh].scheduledOperations[1]].startTime
                < ops[machObjs[mh].scheduledOperations[2]].startTime
    /\ \E h \in OpsOf(problem) : CommitCount(h) = 0

\* ------------------------------------------------------------ C30
OpsOnMachine(mh) == {h \in OpsOf(problem) : ops[h].machineId = machObjs[mh].machineId}

LargestJobLoad == MaxOfSet({0} \cup {SumOfDurations(OpsOfJob(jh)) : jh \in JobsOf(problem)})

LargestMachineLoad ==
    MaxOfSet({0} \cup {SumOfDurations(OpsOnMachine(mh)) : mh \in MachinesOf(problem)})

CompletelySolved == JustSolved /\ ValidInstance /\ AllOperationsScheduled

====
